---------------------------- MODULE Spec2Model ----------------------------
(***************************************************************************)
(* Model of the 2026 Winter Olympics medal tracker: the command line       *)
(* report (olympic_medals_v2.py) and the Argos status-bar widget           *)
(* (olympics.1r.10m+.py).                                                  *)
(*                                                                         *)
(* Strings are sequences of code points ("USA" is <<85, 83, 65>>), so that *)
(* str.lower(), the `in` substring test and the ordering of codes are      *)
(* computed, not assumed.  The wikitext is a sequence of lexical items: a  *)
(* comment opener "<!--", a comment closer "-->", or one table field       *)
(* "| gold_NOR = 1" (family, code, digits).  None is <<>> and a present    *)
(* optional value x is <<x>>.                                              *)
(***************************************************************************)
EXTENDS Integers, Sequences, FiniteSets, TLC

\* ------------------------------------------------------------ bounds
\* Longest free-form wikitext, in lexical items.
MaxLen == 4
\* Largest medal count written in a table field.
MaxCount == 1

\* ----------------------------------------------------------- strings
None == <<>>
Some(x) == <<x>>
IsNone(o) == o = <<>>
Val(o) == o[1]

AUS == <<65, 85, 83>>
NOR == <<78, 79, 82>>
USA == <<85, 83, 65>>
ZZZ == <<90, 90, 90>>

\* str.lower() on ASCII text.
Lower(s) == [i \in DOMAIN s |-> IF s[i] >= 65 /\ s[i] <= 90 THEN s[i] + 32 ELSE s[i]]

\* Python's `q in s` on strings.
Contains(q, s) ==
    \E i \in 0..(Len(s) - Len(q)) : SubSeq(s, i + 1, i + Len(q)) = q

\* Python's `a < b` on strings: lexicographic by code point.
StrLess(a, b) ==
    \E i \in 1..(Len(a) + 1) :
        /\ \A j \in 1..(i - 1) : j <= Len(b) /\ a[j] = b[j]
        /\ \/ i > Len(a) /\ i <= Len(b)
           \/ i <= Len(a) /\ i <= Len(b) /\ a[i] < b[i]

\* The rows of IOC_CODES for the codes of the model; both programs give
\* these codes the same names.
IOC_CODES ==
    (AUS :> <<65, 117, 115, 116, 114, 97, 108, 105, 97>>) @@
    (NOR :> <<78, 111, 114, 119, 97, 121>>) @@
    (USA :> <<85, 110, 105, 116, 101, 100, 32, 83, 116, 97, 116, 101, 115>>)

\* dict.get(key, default)
Get(d, key, default) == IF key \in DOMAIN d THEN d[key] ELSE default

\* ---------------------------------------------------------- wikitext
Open == [kind |-> "open", fam |-> "", code |-> <<>>, val |-> 0]
Close == [kind |-> "close", fam |-> "", code |-> <<>>, val |-> 0]
Field(f, c, v) == [kind |-> "field", fam |-> f, code |-> c, val |-> v]

\* Mutant of StripComments: the greedy pattern <!--.*-->, which runs on to the
\* last closer of the text.
RECURSIVE StripCommentsGreedy(_)
StripCommentsGreedy(text) ==
    IF text = <<>> THEN <<>>
    ELSE LET closers == {j \in 2..Len(text) : text[j] = Close}
         IN IF Head(text) = Open /\ closers # {}
            THEN LET j == CHOOSE k \in closers : \A m \in closers : k >= m
                 IN StripCommentsGreedy(SubSeq(text, j + 1, Len(text)))
            ELSE <<Head(text)>> \o StripCommentsGreedy(Tail(text))

\* re.sub(r'<!--.*?-->', '', wikitext, flags=re.DOTALL): left to right, each
\* opener is removed together with everything up to the nearest closer after
\* it; an opener with no closer after it stays, and so does a lone closer.
RECURSIVE StripComments(_)
StripComments(text) ==
    IF text = <<>> THEN <<>>
    ELSE LET closers == {j \in 2..Len(text) : text[j] = Close}
         IN IF Head(text) = Open /\ closers # {}
            THEN LET j == CHOOSE k \in closers : \A m \in closers : k <= m
                 IN StripComments(SubSeq(text, j + 1, Len(text)))
            ELSE <<Head(text)>> \o StripComments(Tail(text))

\* Mutant of ScanFrom: the first match of a code is kept.
RECURSIVE ScanFromKeepFirst(_, _, _, _)
ScanFromKeepFirst(clean, fam, i, d) ==
    IF i > Len(clean) THEN d
    ELSE LET t == clean[i]
         IN IF t.kind = "field" /\ t.fam = fam /\ t.code \notin DOMAIN d
            THEN ScanFromKeepFirst(clean, fam, i + 1,
                                   [c \in DOMAIN d \cup {t.code} |->
                                       IF c = t.code THEN t.val ELSE d[c]])
            ELSE ScanFromKeepFirst(clean, fam, i + 1, d)

\* {m.group(1): int(m.group(2)) for m in pattern.finditer(clean)}: the
\* matches of one family in text order, a later match of a code replacing
\* the earlier one.
RECURSIVE ScanFrom(_, _, _, _)
ScanFrom(clean, fam, i, d) ==
    IF i > Len(clean) THEN d
    ELSE LET t == clean[i]
         IN IF t.kind = "field" /\ t.fam = fam
            THEN ScanFrom(clean, fam, i + 1,
                          [c \in DOMAIN d \cup {t.code} |->
                              IF c = t.code THEN t.val ELSE d[c]])
            ELSE ScanFrom(clean, fam, i + 1, d)

Scan(clean, fam) == ScanFrom(clean, fam, 1, <<>>)

\* Mutant of Entry: the `if total == 0: continue` is missing.
EntryKeepZero(code, golds, silvers, bronzes) ==
    LET g == Get(golds, code, 0)
        s == Get(silvers, code, 0)
        b == Get(bronzes, code, 0)
    IN << [rank |-> None, code |-> code,
           country |-> Get(IOC_CODES, code, code),
           gold |-> g, silver |-> s, bronze |-> b, total |-> g + s + b] >>

\* The body of `for code in all_codes`: the entry of one code, or nothing
\* when its total is 0.
Entry(code, golds, silvers, bronzes) ==
    LET g == Get(golds, code, 0)
        s == Get(silvers, code, 0)
        b == Get(bronzes, code, 0)
        total == g + s + b
    IN IF total = 0 THEN <<>>
       ELSE << [rank |-> None, code |-> code,
                country |-> Get(IOC_CODES, code, code),
                gold |-> g, silver |-> s, bronze |-> b, total |-> total] >>

\* results after the loop, the codes visited in the order `order`.
RECURSIVE Collect(_, _, _, _)
Collect(order, golds, silvers, bronzes) ==
    IF order = <<>> THEN <<>>
    ELSE Entry(Head(order), golds, silvers, bronzes)
         \o Collect(Tail(order), golds, silvers, bronzes)

\* Mutant of SortKey: the code is left out of the key.
SortKeyNoCode(x) == <<0 - x.gold, 0 - x.silver, 0 - x.bronze, <<>> >>

\* key=lambda x: (-x["gold"], -x["silver"], -x["bronze"], x["code"])
SortKey(x) == <<0 - x.gold, 0 - x.silver, 0 - x.bronze, x.code>>

\* Python's `k1 < k2` on these key tuples.
KeyLess(k1, k2) ==
    \/ k1[1] < k2[1]
    \/ k1[1] = k2[1] /\ k1[2] < k2[2]
    \/ k1[1] = k2[1] /\ k1[2] = k2[2] /\ k1[3] < k2[3]
    \/ k1[1] = k2[1] /\ k1[2] = k2[2] /\ k1[3] = k2[3] /\ StrLess(k1[4], k2[4])

\* list.sort(key=...) is stable: an element goes after every element already
\* placed whose key is not greater than its own.
RECURSIVE SortInto(_, _)
SortInto(sorted, rest) ==
    IF rest = <<>> THEN sorted
    ELSE LET x == Head(rest)
             after == {i \in 1..Len(sorted) : KeyLess(SortKey(x), SortKey(sorted[i]))}
             pos == IF after = {} THEN Len(sorted) + 1
                    ELSE CHOOSE i \in after : \A j \in after : i <= j
         IN SortInto(SubSeq(sorted, 1, pos - 1) \o <<x>>
                        \o SubSeq(sorted, pos, Len(sorted)),
                     Tail(rest))

Sort(results) == SortInto(<<>>, results)

\* Mutant of RankOf: the 0-based index is used as the rank.
RankOfZeroBased(n, entry, prev) ==
    IF n = 1 THEN 1
    ELSE IF entry.gold = prev.gold /\ entry.silver = prev.silver
            /\ entry.bronze = prev.bronze
         THEN prev.rank
         ELSE n - 1

\* Mutant of RankOf: ties are not shared.
RankOfPosition(n, entry, prev) == n

\* Mutant of RankOf: the next distinct entry gets the predecessor's rank + 1.
RankOfDense(n, entry, prev) ==
    IF n = 1 THEN 1
    ELSE IF entry.gold = prev.gold /\ entry.silver = prev.silver
            /\ entry.bronze = prev.bronze
         THEN prev.rank
         ELSE prev.rank + 1

\* One step of `for i, entry in enumerate(results)`: the rank of the entry at
\* 1-based position n, given the ranked entry before it.
RankOf(n, entry, prev) ==
    IF n = 1 THEN 1
    ELSE IF entry.gold = prev.gold /\ entry.silver = prev.silver
            /\ entry.bronze = prev.bronze
         THEN prev.rank
         ELSE n

RECURSIVE AssignFrom(_, _)
AssignFrom(done, rest) ==
    IF rest = <<>> THEN done
    ELSE LET n == Len(done) + 1
             prev == IF n = 1 THEN Head(rest) ELSE done[n - 1]
             e == [Head(rest) EXCEPT !.rank = RankOf(n, Head(rest), prev)]
         IN AssignFrom(Append(done, e), Tail(rest))

AssignRanks(results) == AssignFrom(<<>>, results)

\* all_codes = set(golds) | set(silvers) | set(bronzes)
AllCodes(clean) ==
    DOMAIN Scan(clean, "gold") \cup DOMAIN Scan(clean, "silver")
        \cup DOMAIN Scan(clean, "bronze")

\* The orders in which a set of strings can be iterated.
Orders(S) ==
    {o \in [1..Cardinality(S) -> S] : \A i, j \in DOMAIN o : i # j => o[i] # o[j]}

\* parse_medals(wikitext), all_codes iterated in the order `order`.
parse_medals(wikitext, order) ==
    LET clean == StripComments(wikitext)
    IN AssignRanks(Sort(Collect(order, Scan(clean, "gold"),
                                Scan(clean, "silver"), Scan(clean, "bronze"))))


\* fetch_medals() past the request: the same steps as parse_medals.
fetch_medals(wikitext, order) ==
    LET clean == StripComments(wikitext)
    IN AssignRanks(Sort(Collect(order, Scan(clean, "gold"),
                                Scan(clean, "silver"), Scan(clean, "bronze"))))

\* ------------------------------------------------------- report mode
Line(text, data) == [text |-> text, data |-> data]

\* Python truthiness of args.top and args.country: None, 0 and "" are false.
TruthyInt(o) == ~IsNone(o) /\ Val(o) # 0
TruthyStr(o) == ~IsNone(o) /\ Val(o) # <<>>

\* medals[:n]
SliceTo(medals, n) ==
    IF n >= 0 THEN SubSeq(medals, 1, IF n < Len(medals) THEN n ELSE Len(medals))
    ELSE SubSeq(medals, 1, Len(medals) + n)

\* The --country step of main.
FilterCountry(medals, country) ==
    IF TruthyStr(country)
    THEN LET query == Lower(Val(country))
         IN SelectSeq(medals, LAMBDA m : Contains(query, Lower(m.country))
                                          \/ Contains(query, Lower(m.code)))
    ELSE medals

\* The --top step of main.
LimitTop(medals, top) ==
    IF TruthyInt(top) THEN SliceTo(medals, Val(top)) ELSE medals

RECURSIVE Sum(_, _)
Sum(medals, f) ==
    IF medals = <<>> THEN 0 ELSE Head(medals)[f] + Sum(Tail(medals), f)

format_pretty(medals) ==
    IF medals = <<>> THEN << Line("No medal data found.", <<>>) >>
    ELSE << Line("header", <<>>), Line("rule", <<>>) >>
         \o [i \in 1..Len(medals) |-> Line("row", <<medals[i]>>)]
         \o << Line("rule", <<>>),
               Line("totals", << Len(medals), Sum(medals, "gold"), Sum(medals, "silver"),
                                 Sum(medals, "bronze"), Sum(medals, "total") >>) >>

\* What main hands to the renderer after the filter and the limit.
Display(medals, args) ==
    LET limited == LimitTop(FilterCountry(medals, args.country), args.top)
    IN IF args.oneline /\ ~TruthyStr(args.country) THEN SliceTo(limited, 3) ELSE limited

\* Mutant of report_main: the no-data exit is taken after the filter and limit.
report_main_late(medals, args) ==
    LET show == Display(medals, args)
    IN IF show = <<>>
       THEN [shown |-> None,
             stdout |-> IF args.oneline THEN << Line("No data", <<>>) >> ELSE <<>>,
             stderr |-> IF args.oneline THEN <<>> ELSE << Line("No medal data found.", <<>>) >>,
             exit |-> 1]
       ELSE [shown |-> Some(show),
             stdout |-> IF args.oneline
                        THEN << Line("oneline",
                                     [i \in 1..Len(show) |->
                                        << show[i].code, show[i].gold,
                                           show[i].silver, show[i].bronze >>]) >>
                        ELSE IF args.json THEN << Line("json", show) >>
                        ELSE format_pretty(show),
             stderr |-> <<>>,
             exit |-> 0]

\* main() after parse_medals returned `medals`.
report_main(medals, args) ==
    IF medals = <<>>
    THEN [shown |-> None,
          stdout |-> IF args.oneline THEN << Line("No data", <<>>) >> ELSE <<>>,
          stderr |-> IF args.oneline THEN <<>> ELSE << Line("No medal data found.", <<>>) >>,
          exit |-> 1]
    ELSE LET show == Display(medals, args)
         IN [shown |-> Some(show),
             stdout |-> IF args.oneline
                        THEN << Line("oneline",
                                     [i \in 1..Len(show) |->
                                        << show[i].code, show[i].gold,
                                           show[i].silver, show[i].bronze >>]) >>
                        ELSE IF args.json THEN << Line("json", show) >>
                        ELSE format_pretty(show),
             stderr |-> <<>>,
             exit |-> 0]

\* ------------------------------------------------------- widget mode
MY_COUNTRY == USA

Degraded ==
    << Line("??? | refresh=true", <<>>),
       Line("---", <<>>),
       Line("Failed to fetch medal data | color=#ff0000", <<>>),
       Line("Click to retry | refresh=true", <<>>) >>

\* An uncaught exception: the traceback on stderr, exit status 1.
Uncaught(name, printed) ==
    [stdout |-> printed, stderr |-> << Line(name, <<>>) >>, exit |-> 1]

find_country(medals, code) ==
    LET hits == {i \in 1..Len(medals) : medals[i].code = code}
    IN IF hits = {} THEN None
       ELSE Some(medals[CHOOSE i \in hits : \A j \in hits : i <= j])

\* The itemized output of main(), medals an optional list.
Itemized(medals) ==
    IF IsNone(medals) THEN Uncaught("TypeError", <<>>)
    ELSE IF Val(medals) = <<>> THEN Uncaught("IndexError", <<>>)
    ELSE LET ms == Val(medals)
             mine == find_country(ms, MY_COUNTRY)
             top == IF ~IsNone(mine) /\ Val(mine).total > 0 THEN Val(mine) ELSE ms[1]
         IN [stdout |->
                << Line("summary | refresh=true",
                        <<top.code, top.gold, top.silver, top.bronze>>),
                   Line("---", <<>>), Line("Milano Cortina 2026", <<>>),
                   Line("---", <<>>), Line("header", <<>>), Line("---", <<>>) >>
                \o [i \in 1..Len(ms) |->
                      Line(IF ms[i].code = MY_COUNTRY THEN "row color=#3584e4" ELSE "row",
                           <<ms[i]>>)]
                \o << Line("---", <<>>),
                      Line("totals", << Sum(ms, "gold"), Sum(ms, "silver"),
                                        Sum(ms, "bronze"), Sum(ms, "total") >>),
                      Line("---", <<>>), Line("Open Medal Table", <<>>),
                      Line("Open Wikipedia", <<>>), Line("Refresh | refresh=true", <<>>) >>,
             stderr |-> <<>>,
             exit |-> 0]

\* Mutant of widget_main: `if medals is None` in place of `if not medals`.
widget_main_none_only(medals) ==
    IF IsNone(medals)
    THEN [stdout |-> Degraded, stderr |-> <<>>, exit |-> 0]
    ELSE Itemized(medals)

\* main() of the widget after fetch_medals returned `medals` (None on failure).
widget_main(medals) ==
    IF IsNone(medals) \/ Val(medals) = <<>>
    THEN [stdout |-> Degraded, stderr |-> <<>>, exit |-> 0]
    ELSE Itemized(medals)

\* ------------------------------------------------------------ inputs
Fams == {"gold", "silver", "bronze"}

SeqsUpTo(S, n) == UNION {[1..k -> S] : k \in 0..n}

\* Free-form wikitext about one nation: any items in any order, comments
\* closed or not, fields repeated or missing, counts zero or not.
TextItems == {Open, Close} \cup {Field(f, ZZZ, v) : f \in Fams, v \in {0, 1}}
TextPages == SeqsUpTo(TextItems, MaxLen)

\* A medal table as the article writes it: one row of three fields per nation.
Row(c, t) == << Field("gold", c, t[1]), Field("silver", c, t[2]), Field("bronze", c, t[3]) >>
Triples == (0..MaxCount) \X (0..MaxCount) \X (0..MaxCount)
TablePages ==
    {(IF IsNone(r[AUS]) THEN <<>> ELSE Row(AUS, Val(r[AUS])))
        \o (IF IsNone(r[NOR]) THEN <<>> ELSE Row(NOR, Val(r[NOR])))
        \o (IF IsNone(r[USA]) THEN <<>> ELSE Row(USA, Val(r[USA])))
     : r \in [{AUS, NOR, USA} -> {None} \cup {Some(t) : t \in Triples}]}

\* Gold-only standings of up to four nations.
GoldPages ==
    {(IF g[1] = 0 THEN <<>> ELSE << Field("gold", AUS, g[1]) >>)
        \o (IF g[2] = 0 THEN <<>> ELSE << Field("gold", NOR, g[2]) >>)
        \o (IF g[3] = 0 THEN <<>> ELSE << Field("gold", USA, g[3]) >>)
        \o (IF g[4] = 0 THEN <<>> ELSE << Field("gold", ZZZ, g[4]) >>)
     : g \in [1..4 -> 0..2]}

\* argparse's namespace; --top takes any integer, --country any string.
MaxTop == 2
Queries == { <<>>, <<117, 115>>, <<78, 79>>, <<115, 116, 97, 116, 101, 115>> }
NoArgs == [json |-> FALSE, oneline |-> FALSE, top |-> None, country |-> None]
AllArgs ==
    [json : BOOLEAN, oneline : BOOLEAN,
     top : {None} \cup {Some(n) : n \in (0 - 1)..MaxTop},
     country : {None} \cup {Some(q) : q \in Queries}]

\* The section's wikitext a request can return: anything when the program runs
\* without flags, a gold-only standing when flags are given.
Responses(a) ==
    IF a = NoArgs THEN TextPages \cup TablePages \cup GoldPages ELSE GoldPages

\* ------------------------------------------------------------- state
\* prog: which program runs; args: its parsed command line; pc: where it is;
\* wikitext: the text fetched; medals: the ranked list (None: not there);
\* shown: the list handed to the renderer; stdout, stderr, exit: what the
\* process wrote and its exit status; fetches: requests sent so far.
VARIABLES prog, args, pc, wikitext, medals, shown, stdout, stderr, exit, fetches

vars == <<prog, args, pc, wikitext, medals, shown, stdout, stderr, exit, fetches>>

Init ==
    /\ \/ prog = "report" /\ args \in AllArgs
       \/ prog = "widget" /\ args = NoArgs
    /\ pc = "start"
    /\ wikitext = None
    /\ medals = None
    /\ shown = None
    /\ stdout = <<>>
    /\ stderr = <<>>
    /\ exit = None
    /\ fetches = 0

\* fetch_wikitext(): one request; any failure prints the error and exits 1.
FetchWikitext ==
    /\ prog = "report" /\ pc = "start"
    /\ fetches' = fetches + 1
    /\ \/ /\ \E text \in Responses(args) : wikitext' = Some(text)
          /\ pc' = "fetched"
          /\ UNCHANGED <<stderr, exit>>
       \/ /\ stderr' = << Line("Error fetching data", <<>>) >>
          /\ exit' = Some(1)
          /\ pc' = "done"
          /\ UNCHANGED wikitext
    /\ UNCHANGED <<prog, args, medals, shown, stdout>>

\* medals = parse_medals(wikitext)
ParseMedals ==
    /\ prog = "report" /\ pc = "fetched"
    /\ \E order \in Orders(AllCodes(StripComments(Val(wikitext)))) :
          medals' = Some(parse_medals(Val(wikitext), order))
    /\ pc' = "parsed"
    /\ UNCHANGED <<prog, args, wikitext, shown, stdout, stderr, exit, fetches>>

\* The rest of main(): the no-data exit, the filter, the limit, the output.
ReportMain ==
    /\ prog = "report" /\ pc = "parsed"
    /\ LET r == report_main(Val(medals), args)
       IN /\ shown' = r.shown
          /\ stdout' = r.stdout
          /\ stderr' = r.stderr
          /\ exit' = Some(r.exit)
    /\ pc' = "done"
    /\ UNCHANGED <<prog, args, wikitext, medals, fetches>>

\* medals = fetch_medals(): one request, None on any failure, else the ranked list.
FetchMedals ==
    /\ prog = "widget" /\ pc = "start"
    /\ fetches' = fetches + 1
    /\ \/ \E text \in Responses(args) :
             /\ wikitext' = Some(text)
             /\ \E order \in Orders(AllCodes(StripComments(text))) :
                   medals' = Some(fetch_medals(text, order))
       \/ /\ medals' = None
          /\ UNCHANGED wikitext
    /\ pc' = "fetched"
    /\ UNCHANGED <<prog, args, shown, stdout, stderr, exit>>

\* The rest of the widget's main().
WidgetMain ==
    /\ prog = "widget" /\ pc = "fetched"
    /\ LET r == widget_main(medals)
       IN /\ stdout' = r.stdout
          /\ stderr' = r.stderr
          /\ exit' = Some(r.exit)
    /\ pc' = "done"
    /\ UNCHANGED <<prog, args, wikitext, medals, shown, fetches>>

Next == FetchWikitext \/ ParseMedals \/ ReportMain \/ FetchMedals \/ WidgetMain

Spec == Init /\ [][Next]_vars

\* ------------------------------------------------------------ claims
\* The list the parse-and-rank routine returned (empty while there is none).
Returned == IF IsNone(medals) THEN <<>> ELSE Val(medals)

\* The routine has just returned a list: parse_medals to the report's main,
\* fetch_medals to the widget's.
AtReturn == ~IsNone(medals) /\ pc \in {"parsed", "fetched"}

\* The fetched text after comment stripping.
Clean == IF IsNone(wikitext) THEN <<>> ELSE StripComments(Val(wikitext))

\* Where a code is matched by one family's pattern, and the count of its last
\* match (0 when there is none).
Mentions(text, fam, c) ==
    {i \in 1..Len(text) : text[i].kind = "field" /\ text[i].fam = fam /\ text[i].code = c}

LastCount(text, at) ==
    IF at = {} THEN 0 ELSE text[CHOOSE i \in at : \A j \in at : j <= i].val

Mentioned(text) == {text[i].code : i \in {j \in 1..Len(text) : text[j].kind = "field"}}

SameTriple(a, b) == a.gold = b.gold /\ a.silver = b.silver /\ a.bronze = b.bronze

\* C1: every returned entry has total = gold + silver + bronze and total > 0,
\* and a code whose three counts are all 0 or absent is not in the list.
C1_TotalsPositive ==
    AtReturn =>
        LET clean == Clean
        IN /\ \A i \in 1..Len(Returned) :
                 /\ Returned[i].total
                       = Returned[i].gold + Returned[i].silver + Returned[i].bronze
                 /\ Returned[i].total > 0
           /\ \A c \in Mentioned(clean) :
                 (\A f \in Fams : LastCount(clean, Mentions(clean, f, c)) = 0)
                    => \A i \in 1..Len(Returned) : Returned[i].code # c

\* C1 witness: a list was returned, with an entry, while a code written with
\* three zero counts was left out.
C1_Witness ==
    /\ AtReturn /\ Returned # <<>>
    /\ LET clean == Clean
       IN \E c \in Mentioned(clean) :
             /\ \A f \in Fams : Mentions(clean, f, c) # {}
                                   /\ LastCount(clean, Mentions(clean, f, c)) = 0
             /\ \A i \in 1..Len(Returned) : Returned[i].code # c

\* The order of the claim: gold descending, silver descending, bronze
\* descending, code ascending.
Precedes(a, b) ==
    \/ a.gold > b.gold
    \/ a.gold = b.gold /\ a.silver > b.silver
    \/ a.gold = b.gold /\ a.silver = b.silver /\ a.bronze > b.bronze
    \/ SameTriple(a, b) /\ StrLess(a.code, b.code)

\* C2: the returned list is strictly ordered by gold, silver, bronze
\* descending and then code ascending, and it is the same list for every
\* iteration order of the code set.
C2_SortedDeterministic ==
    AtReturn =>
        /\ \A i \in 1..(Len(Returned) - 1) : Precedes(Returned[i], Returned[i + 1])
        /\ \A order \in Orders(AllCodes(Clean)) :
              Returned = IF prog = "report" THEN parse_medals(Val(wikitext), order)
                         ELSE fetch_medals(Val(wikitext), order)

\* C2 witness: NOR and USA with the same triple, NOR first.
C2_Witness ==
    /\ AtReturn
    /\ \E i \in 1..(Len(Returned) - 1) :
          /\ SameTriple(Returned[i], Returned[i + 1])
          /\ Returned[i].code = NOR /\ Returned[i + 1].code = USA

\* C3: the first entry has rank 1; a later entry has its predecessor's rank
\* iff their triples are equal, and otherwise its 1-based position.
C3_RankRule ==
    AtReturn =>
        \A i \in 1..Len(Returned) :
            IF i = 1 THEN Returned[i].rank = 1
            ELSE /\ (Returned[i].rank = Returned[i - 1].rank)
                       <=> SameTriple(Returned[i], Returned[i - 1])
                 /\ ~SameTriple(Returned[i], Returned[i - 1]) => Returned[i].rank = i

\* C3 witness: three tied leaders and a distinct fourth entry, ranked 1,1,1,4.
C3_Witness ==
    /\ AtReturn /\ Len(Returned) = 4
    /\ SameTriple(Returned[1], Returned[2]) /\ SameTriple(Returned[2], Returned[3])
    /\ ~SameTriple(Returned[3], Returned[4])
    /\ <<Returned[1].rank, Returned[2].rank, Returned[3].rank, Returned[4].rank>>
          = <<1, 1, 1, 4>>

\* Rank never decreases along the returned list.
RankMonotone ==
    \A i \in 1..(Len(Returned) - 1) : Returned[i].rank <= Returned[i + 1].rank

\* C4 as stated: rank is non-decreasing, and two entries have equal rank iff
\* their triples are identical and they are adjacent in the list.
C4_EqualRankIffAdjacentTie ==
    AtReturn =>
        /\ RankMonotone
        /\ \A i, j \in 1..Len(Returned) :
              i < j => ((Returned[i].rank = Returned[j].rank)
                           <=> (SameTriple(Returned[i], Returned[j]) /\ j = i + 1))

\* C4 amended: rank is non-decreasing, and two entries have equal rank iff
\* their triples are identical; the entries of one rank are consecutive in the
\* list, but two of them need not be next to each other.
C4_EqualRankIffTie ==
    AtReturn =>
        /\ RankMonotone
        /\ \A i, j \in 1..Len(Returned) :
              i < j => /\ (Returned[i].rank = Returned[j].rank)
                             <=> SameTriple(Returned[i], Returned[j])
                       /\ Returned[i].rank = Returned[j].rank
                             => \A k \in i..j : Returned[k].rank = Returned[i].rank

\* C4 witness: the first and third entries share a rank without being adjacent.
C4_Witness ==
    /\ AtReturn /\ Len(Returned) >= 3
    /\ Returned[1].rank = Returned[3].rank
    /\ SameTriple(Returned[1], Returned[3])

\* C5 as stated: ranks are dense, the rank values of a list are exactly 1..k.
C5_DenseRanks ==
    AtReturn =>
        LET ranks == {Returned[i].rank : i \in 1..Len(Returned)}
        IN ranks = 1..Cardinality(ranks)

\* C5 amended: tied entries share a rank and the next distinct entry is
\* skipped ahead by the number of tied entries (standard competition ranking):
\* an entry's rank is 1 + the number of entries before it with another triple,
\* so the rank values of a list may have gaps.
C5_CompetitionRanks ==
    AtReturn =>
        \A i \in 1..Len(Returned) :
            Returned[i].rank
               = 1 + Cardinality({j \in 1..(i - 1) : ~SameTriple(Returned[j], Returned[i])})

\* C5 witness: two tied leaders and a third entry of rank 3; no entry has rank 2.
C5_Witness ==
    /\ AtReturn /\ Len(Returned) >= 3
    /\ Returned[1].rank = 1 /\ Returned[2].rank = 1 /\ Returned[3].rank = 3

\* C6: each count of a returned entry is the count of the last match of its
\* code by that family's pattern in the stripped text, and 0 when the family
\* never matches the code.
C6_LastMatchWins ==
    AtReturn =>
        LET clean == Clean
        IN \A i \in 1..Len(Returned) :
              LET e == Returned[i]
              IN /\ e.gold = LastCount(clean, Mentions(clean, "gold", e.code))
                 /\ e.silver = LastCount(clean, Mentions(clean, "silver", e.code))
                 /\ e.bronze = LastCount(clean, Mentions(clean, "bronze", e.code))

\* C6 witness: an entry whose code is matched twice by one family with two
\* different counts, and never by another family.
C6_Witness ==
    /\ AtReturn
    /\ LET clean == Clean
       IN \E i \in 1..Len(Returned) : \E f, g \in Fams :
             LET at == Mentions(clean, f, Returned[i].code)
             IN /\ \E a, b \in at : a < b /\ clean[a].val # clean[b].val
                /\ Mentions(clean, g, Returned[i].code) = {}

\* The positions of the text inside a comment, read left to right: an opener
\* that has a closer after it starts a comment, the next closer ends it.
RECURSIVE Hidden(_, _, _)
Hidden(text, i, inside) ==
    IF i > Len(text) THEN {}
    ELSE IF inside THEN {i} \cup Hidden(text, i + 1, text[i] # Close)
    ELSE IF text[i] = Open /\ \E j \in (i + 1)..Len(text) : text[j] = Close
         THEN {i} \cup Hidden(text, i + 1, TRUE)
         ELSE Hidden(text, i + 1, FALSE)

\* The matches of a code by one family that lie outside every comment, the
\* positions inside comments being `hidden`.
Visible(text, hidden, fam, c) == Mentions(text, fam, c) \ hidden

\* C7: fields inside comments do not count: each count of a returned entry is
\* that of the last match outside comments (0 without one), every returned
\* code is matched outside comments, and a code whose counts outside comments
\* are not all 0 is returned.
C7_CommentsExcluded ==
    AtReturn =>
        LET text == Val(wikitext)
            hidden == Hidden(text, 1, FALSE)
        IN /\ \A i \in 1..Len(Returned) :
                 LET e == Returned[i]
                 IN /\ \E f \in Fams : Visible(text, hidden, f, e.code) # {}
                    /\ e.gold = LastCount(text, Visible(text, hidden, "gold", e.code))
                    /\ e.silver = LastCount(text, Visible(text, hidden, "silver", e.code))
                    /\ e.bronze = LastCount(text, Visible(text, hidden, "bronze", e.code))
           /\ \A c \in Mentioned(text) :
                 (\E f \in Fams : LastCount(text, Visible(text, hidden, f, c)) > 0)
                    => \E i \in 1..Len(Returned) : Returned[i].code = c

\* C7 witness: a returned entry whose code has, after its last match outside
\* comments, a match inside a comment with another count.
C7_Witness ==
    /\ AtReturn
    /\ \E i \in 1..Len(Returned) : \E f \in Fams :
          LET text == Val(wikitext)
              seen == Visible(text, Hidden(text, 1, FALSE), f, Returned[i].code)
          IN /\ seen # {}
             /\ \E h \in Mentions(text, f, Returned[i].code) \ seen :
                   /\ \A v \in seen : v < h
                   /\ text[h].val # Returned[i][f]

\* The entries of a list whose country name or code contains q, case ignored.
Matching(list, q) ==
    SelectSeq(list, LAMBDA e : Contains(Lower(q), Lower(e.country))
                                 \/ Contains(Lower(q), Lower(e.code)))

\* The first n entries of a list.
FirstN(list, n) == [i \in 1..(IF n < 0 THEN 0 ELSE IF n > Len(list) THEN Len(list) ELSE n)
                        |-> list[i]]

\* A report that got as far as its output with --country Q, Q not empty, and
\* --top N given.
FilteredAndLimited ==
    /\ prog = "report" /\ pc = "done" /\ ~IsNone(shown)
    /\ TruthyStr(args.country) /\ ~IsNone(args.top)

\* C8: with --country Q and --top N the displayed list is the first N of the
\* entries that match Q, each with the rank it has in the full list (stated
\* for N >= 0, where "the first N" leaves no doubt).
C8_FilterThenTop ==
    FilteredAndLimited /\ Val(args.top) >= 0 =>
        Val(shown) = FirstN(Matching(Returned, Val(args.country)), Val(args.top))

\* C8 for N >= 1, the part of the claim the code keeps.
C8_FilterThenPositiveTop ==
    FilteredAndLimited /\ Val(args.top) >= 1 =>
        Val(shown) = FirstN(Matching(Returned, Val(args.country)), Val(args.top))

\* C8, N >= 1: the one entry displayed is a match ranked below an entry that
\* does not match.
C8_PositiveTopWitness ==
    /\ FilteredAndLimited /\ Val(args.top) = 1 /\ Len(Val(shown)) = 1
    /\ Val(shown)[1].rank > 1
    /\ Val(shown)[1] # Returned[1]

\* C9: the report exits 1 iff the fetch failed or parse_medals returned an
\* empty list, and 0 otherwise, whatever the flags; on the failure path
\* nothing is written but the one notice, and no list is rendered.
C9_ExitCode ==
    prog = "report" /\ pc = "done" =>
        /\ exit \in {Some(0), Some(1)}
        /\ exit = Some(1) <=> (IsNone(medals) \/ Returned = <<>>)
        /\ exit = Some(1) =>
              /\ shown = None
              /\ Len(stdout) + Len(stderr) = 1
              /\ IsNone(medals) => stderr = << Line("Error fetching data", <<>>) >>
              /\ ~IsNone(medals) =>
                    IF args.oneline THEN stdout = << Line("No data", <<>>) >>
                    ELSE stderr = << Line("No medal data found.", <<>>) >>
        /\ exit = Some(0) => ~IsNone(shown) /\ stderr = <<>>

\* C9 witness: medals were parsed, the filter left none of them, the exit code
\* is 0.
C9_Witness ==
    /\ prog = "report" /\ pc = "done"
    /\ Returned # <<>> /\ shown = Some(<<>>) /\ exit = Some(0)
    /\ TruthyStr(args.country)

=============================================================================
